---- MODULE Spec2Model ----
(***************************************************************************)
(* Model of src/requests.rs: the GET pipeline of the OP API SDK.           *)
(*                                                                         *)
(*   Requests::get  =  get_request_url ; Client::new().get ;               *)
(*                     set_query_params ; set_headers ; send().await ;     *)
(*                     check_errors(..).await                              *)
(*                                                                         *)
(* Every invocation of get is a call c with its own locals.  Strings are   *)
(* TLA+ strings, format! is string concatenation.  A response body is the  *)
(* JSON value its bytes denote (or a marker for bytes that are not JSON,   *)
(* or for a body stream that breaks while it is read).                     *)
(***************************************************************************)
EXTENDS Integers, Sequences, FiniteSets, TLC

VARIABLES
    args,         \* args[c]   : the arguments (options, url, query) of call c
    pc,           \* pc[c]     : position of call c inside get / check_errors
    request_url,  \* request_url[c] : local of get, line 81
    builder,      \* builder[c]: the RequestBuilder of call c (lines 82-83)
    sent,         \* sent[c]   : the requests call c put on the wire
    sendResult,   \* sendResult[c] : what client.send().await returned
    bodyRead,     \* bodyRead[c] : response.json() consumed the body
    result,       \* result[c] : the value get returned
    trace         \* trace[c]  : the stages call c has run, in order

vars == <<args, pc, request_url, builder, sent, sendResult, bodyRead, result, trace>>

----------------------------------------------------------------------------
(* Bounds *)

\* longest "errors" array of a generated response body
MaxErrors == 2
\* number of concurrent invocations of get in SpecConc
NumCalls == 2

----------------------------------------------------------------------------
(* Option<T>, Result<T, E> *)

None == [some |-> FALSE]
Some(v) == [some |-> TRUE, value |-> v]

Ok(v) == [ok |-> TRUE, value |-> v]
Err(e) == [ok |-> FALSE, error |-> e]

\* the locals of get before they are assigned
Unset == [set |-> FALSE]

----------------------------------------------------------------------------
(* JSON values: the content of a response body *)

JStr(s) == [t |-> "str", s |-> s]
JNum(n) == [t |-> "num", n |-> n]
JNull == [t |-> "null"]
JArr(xs) == [t |-> "arr", a |-> xs]
\* an object is the sequence of its members <<key, value>>, as written
JObj(ms) == [t |-> "obj", m |-> ms]
\* body bytes that are not a JSON text (a proxy's HTML error page)
NotJson == [t |-> "garbage"]
\* a body whose stream fails before its end
Unreadable == [t |-> "ioerror"]

----------------------------------------------------------------------------
(* ApiError / ApiErrors and their derived Deserialize (lines 11-23)        *)

\* the fields of struct ApiError, in declaration order
ApiErrorFields == <<"id", "level", "type", "message">>

\* positions of the members of object j whose key is k
Members(j, k) == {i \in DOMAIN j.m : j.m[i][1] = k}

\* the value of the only member of object j with key k
Member(j, k) == j.m[CHOOSE i \in Members(j, k) : TRUE][2]

\* a required String field: present exactly once (a repeated key is the
\* "duplicate field" error, an absent one "missing field") and a JSON string
HasStringField(j, k) ==
    /\ Cardinality(Members(j, k)) = 1
    /\ Member(j, k).t = "str"

\* Deserialize for ApiError.  The derived visitor takes a JSON object
\* (visit_map: unknown keys are skipped) and also a JSON array holding the
\* fields in declaration order (visit_seq: exactly four elements).
DeserializeApiError(j) ==
    IF j.t = "obj"
    THEN IF \A n \in DOMAIN ApiErrorFields : HasStringField(j, ApiErrorFields[n])
         THEN Ok([id      |-> Member(j, "id").s,
                  level   |-> Member(j, "level").s,
                  type    |-> Member(j, "type").s,
                  message |-> Member(j, "message").s])
         ELSE Err("decode")
    ELSE IF j.t = "arr"
    THEN IF Len(j.a) = Len(ApiErrorFields) /\ \A i \in DOMAIN j.a : j.a[i].t = "str"
         THEN Ok([id      |-> j.a[1].s,
                  level   |-> j.a[2].s,
                  type    |-> j.a[3].s,
                  message |-> j.a[4].s])
         ELSE Err("decode")
    ELSE Err("decode")

\* DeserializeVec collecting the records back to front
DeserializeVec_Reversed(j) ==
    IF j.t = "arr" /\ \A i \in DOMAIN j.a : DeserializeApiError(j.a[i]).ok
    THEN Ok([i \in DOMAIN j.a |-> DeserializeApiError(j.a[Len(j.a) + 1 - i]).value])
    ELSE Err("decode")

\* DeserializeVec stopping after the first record
DeserializeVec_FirstOnly(j) ==
    IF j.t = "arr" /\ \A i \in DOMAIN j.a : DeserializeApiError(j.a[i]).ok
    THEN Ok([i \in DOMAIN j.a \cap {1} |-> DeserializeApiError(j.a[i]).value])
    ELSE Err("decode")

\* Deserialize for Vec<ApiError>: a JSON array, every element an ApiError,
\* kept in the order of the array
DeserializeVec(j) ==
    IF j.t = "arr" /\ \A i \in DOMAIN j.a : DeserializeApiError(j.a[i]).ok
    THEN Ok([i \in DOMAIN j.a |-> DeserializeApiError(j.a[i]).value])
    ELSE Err("decode")

\* Deserialize for ApiErrors: an object with the key "errors", or an array
\* whose single element is the errors vector
DeserializeApiErrors(j) ==
    IF j.t = "obj"
    THEN IF Cardinality(Members(j, "errors")) = 1 /\ DeserializeVec(Member(j, "errors")).ok
         THEN Ok([errors |-> DeserializeVec(Member(j, "errors")).value])
         ELSE Err("decode")
    ELSE IF j.t = "arr"
    THEN IF Len(j.a) = 1 /\ DeserializeVec(j.a[1]).ok
         THEN Ok([errors |-> DeserializeVec(j.a[1]).value])
         ELSE Err("decode")
    ELSE Err("decode")

\* the errors get can return (Box<dyn Error>)
TransportError(detail) == [kind |-> "TransportError", detail |-> detail]
BodyError == [kind |-> "BodyError"]
DeserializationError == [kind |-> "DeserializationError"]
ApiErrorsError(e) == [kind |-> "ApiErrors", errors |-> e.errors]

\* response.json::<ApiErrors>() (line 64): reads the whole body, then parses
ResponseJson(response) ==
    IF response.body.t = "ioerror" THEN Err(BodyError)
    ELSE IF response.body.t = "garbage" THEN Err(DeserializationError)
    ELSE IF DeserializeApiErrors(response.body).ok
         THEN Ok(DeserializeApiErrors(response.body).value)
         ELSE Err(DeserializationError)

\* StatusCode::OK
StatusOK == 200

\* IsSuccess taking every 2xx status for a success
IsSuccess_Any2xx(status) == status \in 200..299

\* the first arm of the match in check_errors (line 62)
IsSuccess(status) == status = StatusOK

\* check_errors (lines 60-68)
check_errors(response) ==
    IF IsSuccess(response.status)
    THEN Ok(response)
    ELSE IF ResponseJson(response).ok
         THEN Err(ApiErrorsError(ResponseJson(response).value))
         ELSE Err(ResponseJson(response).error)

----------------------------------------------------------------------------
(* Building the request (lines 36-57, 81-83)                               *)

\* get_request_url joining the two parts with a slash
get_request_url_Slash(options, url) == options.base_url \o "/" \o url

\* get_request_url (lines 36-38): format!("{base_url}{url}")
get_request_url(options, url) == options.base_url \o url

\* a parsed Url: the text before '?' and the query pairs after it, if any
Url(path, query) == [path |-> path, query |-> query]

\* IntoUrl for &String inside Client::get (line 82): Url::parse of the
\* target, tabulated for the targets the inputs below can produce.  A target
\* without a scheme has no base to resolve against and does not parse.
IntoUrl(target) ==
    CASE target = "https://api.example.com/v1/items" ->
            Ok(Url("https://api.example.com/v1/items", None))
      [] target = "https://api.example.com//v1/items" ->
            Ok(Url("https://api.example.com//v1/items", None))
      [] target = "https://api.example.com/v1/items?x=1" ->
            Ok(Url("https://api.example.com/v1/items", Some(<< <<"x", "1">> >>)))
      [] target = "https://api.example.com//v1/items?x=1" ->
            Ok(Url("https://api.example.com//v1/items", Some(<< <<"x", "1">> >>)))
      [] target = "https://api.example.com/v1/accounts" ->
            Ok(Url("https://api.example.com/v1/accounts", None))
      [] target = "https://api.example.com//v1/accounts" ->
            Ok(Url("https://api.example.com//v1/accounts", None))
      [] OTHER -> Err(TransportError("builder"))

\* Client::new().get(&request_url) (line 82): a fresh client owned by call
\* c and a GET request without headers, or the error of the URL
ClientGet(c, target) ==
    [client  |-> c,
     request |-> IF IntoUrl(target).ok
                 THEN Ok([method |-> "GET", url |-> IntoUrl(target).value, headers |-> <<>>])
                 ELSE Err(IntoUrl(target).error)]

\* HeaderValue::try_from(&str): control characters are rejected
IsHeaderValue(v) == v # "bad\nkey"

\* RequestBuilder::header: appends to the request, or turns the builder
\* into its error; a builder already in error stays as it is
Header(b, name, value) ==
    IF ~b.request.ok THEN b
    ELSE IF ~IsHeaderValue(value)
         THEN [b EXCEPT !.request = Err(TransportError("builder"))]
         ELSE [b EXCEPT !.request = Ok([b.request.value EXCEPT
                                          !.headers = Append(@, <<name, value>>)])]

\* BearerValue without the space of the format string
BearerValue_NoSpace(options) == "Bearer" \o options.authorization

\* the Authorization value of set_headers (line 46): format!("{} {}", ..)
BearerValue(options) == "Bearer" \o " " \o options.authorization

\* set_headers (lines 41-49)
set_headers(options, b) ==
    Header(Header(Header(b, "x-api-key", options.api_key),
                  "Authorization", BearerValue(options)),
           "Accept", "application/json")

\* A query value is the sequence of the fields <<key, value>> of the
\* Serialize struct; a value is a string, an Option that is None, or a
\* nested structure.
QStr(s) == [t |-> "str", v |-> s]
QNone == [t |-> "none"]
QNested == [t |-> "nested"]

\* serde_urlencoded: a None field is left out, a nested value is the
\* "unsupported value" error, the other fields keep their order
RECURSIVE UrlEncodedPairs(_)
UrlEncodedPairs(q) ==
    IF q = <<>> THEN <<>>
    ELSE IF Head(q)[2].t = "str"
         THEN << <<Head(q)[1], Head(q)[2].v>> >> \o UrlEncodedPairs(Tail(q))
         ELSE UrlEncodedPairs(Tail(q))

Serializable(q) == \A i \in DOMAIN q : q[i][2].t # "nested"

\* the pairs a Url carries
QueryPairs(url) == IF url.query.some THEN url.query.value ELSE <<>>

\* Query replacing the pairs of the URL instead of extending them
Query_Replace(b, q) ==
    IF ~b.request.ok THEN b
    ELSE IF ~Serializable(q)
         THEN [b EXCEPT !.request = Err(TransportError("builder"))]
         ELSE LET pairs == UrlEncodedPairs(q)
              IN  [b EXCEPT !.request = Ok([b.request.value EXCEPT
                        !.url.query = IF pairs = <<>> THEN None ELSE Some(pairs)])]

\* RequestBuilder::query: extends the pairs of the URL with the serialized
\* value and drops a query that is left empty; a value that does not
\* serialize turns the builder into its error
Query(b, q) ==
    IF ~b.request.ok THEN b
    ELSE IF ~Serializable(q)
         THEN [b EXCEPT !.request = Err(TransportError("builder"))]
         ELSE LET pairs == QueryPairs(b.request.value.url) \o UrlEncodedPairs(q)
              IN  [b EXCEPT !.request = Ok([b.request.value EXCEPT
                        !.url.query = IF pairs = <<>> THEN None ELSE Some(pairs)])]

\* set_query_params (lines 52-57)
set_query_params(query, b) ==
    IF query.some THEN Query(b, query.value) ELSE b

----------------------------------------------------------------------------
(* Inputs: the arguments of get and what the network answers               *)

BaseUrls == {"https://api.example.com", "https://api.example.com/", "api.example.com"}
ApiKeys == {"key-1", "bad\nkey"}
Tokens == {"tok-1"}
OptionsSet == [base_url : BaseUrls, api_key : ApiKeys, authorization : Tokens]

Paths == {"/v1/items", "/v1/items?x=1", "/v1/accounts"}

Queries ==
    {None,
     Some(<<>>),
     Some(<< <<"a", QStr("1")>> >>),
     Some(<< <<"a", QStr("1")>>, <<"b", QStr("2")>> >>),
     Some(<< <<"b", QStr("2")>>, <<"skip", QNone>>, <<"a", QStr("1")>> >>),
     Some(<< <<"a", QStr("1")>>, <<"filter", QNested>> >>)}

ArgsSet == [options : OptionsSet, url : Paths, query : Queries]

\* the error records a server reports
ApiErrorSet ==
    {[id |-> "E1", level |-> "error", type |-> "not_found", message |-> "missing"],
     [id |-> "E2", level |-> "warn", type |-> "auth", message |-> "denied"]}

ApiErrorSeqs == UNION {[1..n -> ApiErrorSet] : n \in 0..MaxErrors}

\* one record written as the JSON object of section 6 of the specification;
\* the "extra" style writes the keys in another order and adds a key
RecordJson(e, style) ==
    IF style = "plain"
    THEN JObj(<< <<"id", JStr(e.id)>>, <<"level", JStr(e.level)>>,
                 <<"type", JStr(e.type)>>, <<"message", JStr(e.message)>> >>)
    ELSE JObj(<< <<"message", JStr(e.message)>>, <<"code", JNum(7)>>,
                 <<"type", JStr(e.type)>>, <<"id", JStr(e.id)>>,
                 <<"level", JStr(e.level)>> >>)

\* the body {"errors": [...]} of a failed response
ErrorBody(es, style) ==
    IF style = "plain"
    THEN JObj(<< <<"errors", JArr([i \in DOMAIN es |-> RecordJson(es[i], style)])>> >>)
    ELSE JObj(<< <<"trace", JStr("t-1")>>,
                 <<"errors", JArr([i \in DOMAIN es |-> RecordJson(es[i], style)])>> >>)

Styles == {"plain", "extra"}

WellFormedBodies == {ErrorBody(es, st) : es \in ApiErrorSeqs, st \in Styles}

E1 == [id |-> "E1", level |-> "error", type |-> "not_found", message |-> "missing"]

\* bodies that are not the error payload of section 6
MalformedBodies ==
    {NotJson,
     JNull,
     JStr("Bad Gateway"),
     JObj(<<>>),
     JObj(<< <<"items", JArr(<<>>)>> >>),
     JObj(<< <<"error", JArr(<<RecordJson(E1, "plain")>>)>> >>),
     JObj(<< <<"errors", JNull>> >>),
     JObj(<< <<"errors", RecordJson(E1, "plain")>> >>),
     JObj(<< <<"errors", JArr(<<>>)>>, <<"errors", JArr(<<>>)>> >>),
     JObj(<< <<"errors", JArr(<< JObj(<< <<"id", JStr("E1")>>, <<"level", JStr("error")>>,
                                         <<"type", JStr("not_found")>> >>) >>)>> >>),
     JObj(<< <<"errors", JArr(<< JObj(<< <<"id", JNum(1)>>, <<"level", JStr("error")>>,
                                         <<"type", JStr("not_found")>>,
                                         <<"message", JStr("missing")>> >>) >>)>> >>),
     JObj(<< <<"errors", JArr(<< JArr(<<JStr("E1"), JStr("error"),
                                        JStr("not_found"), JStr("missing")>>) >>)>> >>),
     JArr(<< JArr(<<>>) >>),
     JArr(<< JArr(<<RecordJson(E1, "plain")>>) >>)}

Bodies == WellFormedBodies \cup MalformedBodies \cup {Unreadable}

Statuses == {200, 201, 204, 401, 404, 500}

Responses == [status : Statuses, body : Bodies]

\* why send() fails on the network
TransportFailures == {"connect", "timeout"}

\* the inputs of the concurrent specification
ConcOptions == [base_url |-> "https://api.example.com", api_key |-> "key-1",
                authorization |-> "tok-1"]
ConcArgsSet ==
    {[options |-> ConcOptions, url |-> "/v1/items", query |-> None],
     [options |-> ConcOptions, url |-> "/v1/accounts",
      query |-> Some(<< <<"a", QStr("1")>> >>)],
     [options |-> [ConcOptions EXCEPT !.api_key = "bad\nkey"], url |-> "/v1/items?x=1",
      query |-> None]}
ConcResponses ==
    {[status |-> 200, body |-> JObj(<< <<"items", JArr(<<>>)>> >>)],
     [status |-> 404, body |-> ErrorBody(<<E1>>, "plain")],
     [status |-> 500, body |-> NotJson]}

----------------------------------------------------------------------------
(* The state machine                                                       *)

Calls == DOMAIN pc

InitWith(calls, argsSet) ==
    /\ args \in [calls -> argsSet]
    /\ pc = [c \in calls |-> "get_request_url"]
    /\ request_url = [c \in calls |-> Unset]
    /\ builder = [c \in calls |-> Unset]
    /\ sent = [c \in calls |-> <<>>]
    /\ sendResult = [c \in calls |-> Unset]
    /\ bodyRead = [c \in calls |-> FALSE]
    /\ result = [c \in calls |-> Unset]
    /\ trace = [c \in calls |-> <<>>]

\* one invocation of get, any arguments
Init == InitWith({1}, ArgsSet)

\* NumCalls invocations of get in flight at once
InitConc == InitWith(1..NumCalls, ConcArgsSet)

\* the responses the network may give to call c
ResponsesFor(c) == IF Cardinality(Calls) = 1 THEN Responses ELSE ConcResponses

\* line 81
GetRequestUrl(c) ==
    /\ pc[c] = "get_request_url"
    /\ request_url' = [request_url EXCEPT
                         ![c] = get_request_url(args[c].options, args[c].url)]
    /\ pc' = [pc EXCEPT ![c] = "client_get"]
    /\ trace' = [trace EXCEPT ![c] = Append(@, "get_request_url")]
    /\ UNCHANGED <<args, builder, sent, sendResult, bodyRead, result>>

\* NewClientGet going on to set_headers without the query parameters
NewClientGet_SkipQuery(c) ==
    /\ pc[c] = "client_get"
    /\ builder' = [builder EXCEPT ![c] = ClientGet(c, request_url[c])]
    /\ pc' = [pc EXCEPT ![c] = "set_headers"]
    /\ trace' = [trace EXCEPT ![c] = Append(@, "client_get")]
    /\ UNCHANGED <<args, request_url, sent, sendResult, bodyRead, result>>

\* line 82
NewClientGet(c) ==
    /\ pc[c] = "client_get"
    /\ builder' = [builder EXCEPT ![c] = ClientGet(c, request_url[c])]
    /\ pc' = [pc EXCEPT ![c] = "set_query_params"]
    /\ trace' = [trace EXCEPT ![c] = Append(@, "client_get")]
    /\ UNCHANGED <<args, request_url, sent, sendResult, bodyRead, result>>

\* line 83, the argument of set_headers: evaluated before the call
SetQueryParams(c) ==
    /\ pc[c] = "set_query_params"
    /\ builder' = [builder EXCEPT ![c] = set_query_params(args[c].query, builder[c])]
    /\ pc' = [pc EXCEPT ![c] = "set_headers"]
    /\ trace' = [trace EXCEPT ![c] = Append(@, "set_query_params")]
    /\ UNCHANGED <<args, request_url, sent, sendResult, bodyRead, result>>

\* SetHeaders on a builder that all the calls share
SetHeaders_Shared(c) ==
    /\ pc[c] = "set_headers"
    /\ builder' = [d \in Calls |-> set_headers(args[c].options, builder[c])]
    /\ pc' = [pc EXCEPT ![c] = "send"]
    /\ trace' = [trace EXCEPT ![c] = Append(@, "set_headers")]
    /\ UNCHANGED <<args, request_url, sent, sendResult, bodyRead, result>>

\* line 83, the call of set_headers
SetHeaders(c) ==
    /\ pc[c] = "set_headers"
    /\ builder' = [builder EXCEPT ![c] = set_headers(args[c].options, builder[c])]
    /\ pc' = [pc EXCEPT ![c] = "send"]
    /\ trace' = [trace EXCEPT ![c] = Append(@, "set_headers")]
    /\ UNCHANGED <<args, request_url, sent, sendResult, bodyRead, result>>

\* line 85, client.send(): a builder in error fails at once and `?` returns
\* its error; otherwise the request goes out and the call is suspended
Send(c) ==
    /\ pc[c] = "send"
    /\ trace' = [trace EXCEPT ![c] = Append(@, "send")]
    /\ IF builder[c].request.ok
       THEN /\ sent' = [sent EXCEPT ![c] = Append(@, builder[c].request.value)]
            /\ pc' = [pc EXCEPT ![c] = "await_send"]
            /\ UNCHANGED <<sendResult, result>>
       ELSE /\ sendResult' = [sendResult EXCEPT ![c] = Err(builder[c].request.error)]
            /\ result' = [result EXCEPT ![c] = Err(builder[c].request.error)]
            /\ pc' = [pc EXCEPT ![c] = "done"]
            /\ UNCHANGED sent
    /\ UNCHANGED <<args, request_url, builder, bodyRead>>

\* line 85, .await resumes with a response
SendReturnsResponse(c) ==
    /\ pc[c] = "await_send"
    /\ \E r \in ResponsesFor(c) :
          sendResult' = [sendResult EXCEPT ![c] = Ok(r)]
    /\ pc' = [pc EXCEPT ![c] = "check_errors"]
    /\ UNCHANGED <<args, request_url, builder, sent, bodyRead, result, trace>>

\* SendFails sending the request again instead of returning the error
SendFails_Retry(c) ==
    /\ pc[c] = "await_send"
    /\ \E d \in TransportFailures :
          sendResult' = [sendResult EXCEPT ![c] = Err(TransportError(d))]
    /\ pc' = [pc EXCEPT ![c] = "send"]
    /\ UNCHANGED <<args, request_url, builder, sent, bodyRead, result, trace>>

\* line 85, .await resumes with an error and `?` returns it
SendFails(c) ==
    /\ pc[c] = "await_send"
    /\ \E d \in TransportFailures :
          /\ sendResult' = [sendResult EXCEPT ![c] = Err(TransportError(d))]
          /\ result' = [result EXCEPT ![c] = Err(TransportError(d))]
    /\ pc' = [pc EXCEPT ![c] = "done"]
    /\ UNCHANGED <<args, request_url, builder, sent, bodyRead, trace>>

\* line 86 and lines 61-62: the match on the status; on StatusCode::OK the
\* response is returned, otherwise the call is suspended in json() (line 64)
CheckErrors(c) ==
    /\ pc[c] = "check_errors"
    /\ trace' = [trace EXCEPT ![c] = Append(@, "check_errors")]
    /\ IF IsSuccess(sendResult[c].value.status)
       THEN /\ result' = [result EXCEPT ![c] = check_errors(sendResult[c].value)]
            /\ pc' = [pc EXCEPT ![c] = "done"]
       ELSE /\ pc' = [pc EXCEPT ![c] = "await_json"]
            /\ UNCHANGED result
    /\ UNCHANGED <<args, request_url, builder, sent, sendResult, bodyRead>>

\* lines 64-65: json().await resumes, the body is consumed, and the error
\* (the ApiErrors or the error of json) is returned through line 86
JsonReturns(c) ==
    /\ pc[c] = "await_json"
    /\ bodyRead' = [bodyRead EXCEPT ![c] = TRUE]
    /\ result' = [result EXCEPT ![c] = check_errors(sendResult[c].value)]
    /\ pc' = [pc EXCEPT ![c] = "done"]
    /\ UNCHANGED <<args, request_url, builder, sent, sendResult, trace>>

Next ==
    \/ \E c \in Calls : GetRequestUrl(c)
    \/ \E c \in Calls : NewClientGet(c)
    \/ \E c \in Calls : SetQueryParams(c)
    \/ \E c \in Calls : SetHeaders(c)
    \/ \E c \in Calls : Send(c)
    \/ \E c \in Calls : SendReturnsResponse(c)
    \/ \E c \in Calls : SendFails(c)
    \/ \E c \in Calls : CheckErrors(c)
    \/ \E c \in Calls : JsonReturns(c)

Spec == Init /\ [][Next]_vars

SpecConc == InitConc /\ [][Next]_vars

----------------------------------------------------------------------------
(* Properties                                                              *)

Done(c) == pc[c] = "done"

\* send().await of call c returned a response
HasResponse(c) == sendResult[c] # Unset /\ sendResult[c].ok

\* send() of call c returned an error
SendFailed(c) == sendResult[c] # Unset /\ ~sendResult[c].ok

TheResponse(c) == sendResult[c].value

IsPrefix(s, t) == Len(s) <= Len(t) /\ \A i \in DOMAIN s : s[i] = t[i]

Count(s, x) == Cardinality({i \in DOMAIN s : s[i] = x})

\* C1: a response makes get succeed if and only if its status is exactly
\* 200; the value returned is then the response received, and its body is
\* never read: no call that received a 200 ever has its body consumed.
C1_SuccessIffStatusOk ==
    \A c \in Calls :
        /\ (HasResponse(c) /\ TheResponse(c).status = 200) => ~bodyRead[c]
        /\ (Done(c) /\ HasResponse(c)) =>
              /\ result[c].ok <=> TheResponse(c).status = 200
              /\ result[c].ok => result[c].value = TheResponse(c)

\* a 200 whose body would parse as an error payload is returned untouched
C1_Witness ==
    \E c \in Calls :
        /\ Done(c) /\ HasResponse(c)
        /\ TheResponse(c) = [status |-> 200, body |-> ErrorBody(<<E1>>, "plain")]
        /\ result[c] = Ok(TheResponse(c))
        /\ ~bodyRead[c]

\* C2: for every status other than 200 and every well-formed error payload
\* {"errors": [...]}, get fails with the ApiErrors holding exactly the
\* records of the payload, in their order, each field unchanged.
C2_ApiErrorsPreserved ==
    \A c \in Calls :
        (Done(c) /\ HasResponse(c) /\ TheResponse(c).status # 200) =>
            \A es \in ApiErrorSeqs, st \in Styles :
                TheResponse(c).body = ErrorBody(es, st) =>
                    result[c] = Err([kind |-> "ApiErrors", errors |-> es])

C2_Witness ==
    \E c \in Calls :
        /\ Done(c) /\ HasResponse(c)
        /\ TheResponse(c).status = 404
        /\ TheResponse(c).body = ErrorBody(<<E1>>, "plain")
        /\ result[c] = Err([kind |-> "ApiErrors",
                            errors |-> << [id |-> "E1", level |-> "error",
                                           type |-> "not_found",
                                           message |-> "missing"] >>])

\* C3: for every status other than 200 and every body that is not the
\* error payload (not JSON, no "errors" key, a record lacking a field), get
\* fails with a DeserializationError, never with ApiErrors, never succeeds.
C3_MalformedIsDeserializationError ==
    \A c \in Calls :
        (Done(c) /\ HasResponse(c) /\ TheResponse(c).status # 200
           /\ TheResponse(c).body \in MalformedBodies) =>
            result[c] = Err(DeserializationError)

\* C4: get sends at most once; when send fails its error is the result of
\* get at once, with no second send, no classifier step and no body read;
\* and every failure of the classifier is returned as it was produced.
C4_NoRetryNoRecovery ==
    \A c \in Calls :
        /\ Len(sent[c]) <= 1
        /\ Count(trace[c], "send") <= 1
        /\ SendFailed(c) =>
              /\ Done(c)
              /\ result[c] = sendResult[c]
              /\ Count(trace[c], "check_errors") = 0
              /\ ~bodyRead[c]
        /\ (Done(c) /\ HasResponse(c) /\ TheResponse(c).status # 200) =>
              /\ ~result[c].ok
              /\ ResponseJson(TheResponse(c)).ok =>
                    result[c].error = ApiErrorsError(ResponseJson(TheResponse(c)).value)
              /\ ~ResponseJson(TheResponse(c)).ok =>
                    result[c].error = ResponseJson(TheResponse(c)).error

C4_Witness ==
    \E c \in Calls :
        /\ Done(c)
        /\ Len(sent[c]) = 1
        /\ sendResult[c] = Err(TransportError("timeout"))
        /\ result[c] = Err(TransportError("timeout"))

\* the three headers of section 6, and nothing else
MandatedHeaders(options) ==
    { <<"x-api-key", options.api_key>>,
      <<"Authorization", "Bearer " \o options.authorization>>,
      <<"Accept", "application/json">> }

HeadersExact(request, options) ==
    /\ Len(request.headers) = 3
    /\ {request.headers[i] : i \in DOMAIN request.headers} = MandatedHeaders(options)

\* C5: every request get puts on the wire carries x-api-key, Authorization
\* ("Bearer", one space, the token) and Accept: application/json with
\* exactly these values and no other header, and no step changes Options.
C5_MandatedHeaders ==
    [][ /\ \A c \in Calls : args'[c].options = args[c].options
        /\ \A c \in Calls : \A i \in DOMAIN sent'[c] :
              HeadersExact(sent'[c][i], args[c].options) ]_vars

C5_Witness ==
    \E c \in Calls :
        /\ Len(sent[c]) = 1
        /\ sent[c][1].headers = << <<"x-api-key", "key-1">>,
                                   <<"Authorization", "Bearer tok-1">>,
                                   <<"Accept", "application/json">> >>

\* the request get builds without the Query Composer
RequestWithoutQuery(c) ==
    set_headers(args[c].options,
                ClientGet(c, args[c].options.base_url \o args[c].url)).request.value

\* the pairs of a query string as a bag: equal whatever their order
PairBag(pairs) == [p \in {pairs[i] : i \in DOMAIN pairs} |-> Count(pairs, p)]

\* the key-value pairs the structured value serializes to: its fields that
\* hold a value
SerializedPairs(q) ==
    LET present == SelectSeq(q, LAMBDA f : f[2].t = "str")
    IN  [i \in DOMAIN present |-> <<present[i][1], present[i][2].v>>]

\* C6: a request sent without a query argument has a URL without a query
\* string and is the request built without the Query Composer; one sent
\* with a query argument has a query string whose pairs are those of the
\* serialized value, in any order.
C6_QueryStringOriginal ==
    \A c \in Calls : \A i \in DOMAIN sent[c] :
        IF ~args[c].query.some
        THEN /\ ~sent[c][i].url.query.some
             /\ sent[c][i] = RequestWithoutQuery(c)
        ELSE PairBag(QueryPairs(sent[c][i].url))
                  = PairBag(SerializedPairs(args[c].query.value))

\* C6, amended: a request sent without a query argument is the request
\* built without the Query Composer (its URL keeps the query string the
\* path brought, if any); one sent with a query argument carries the pairs
\* the path brought followed by the pairs of the serialized value in
\* serialization order, and has a query string iff there is such a pair.
C6_QueryStringAppended ==
    \A c \in Calls : \A i \in DOMAIN sent[c] :
        IF ~args[c].query.some
        THEN sent[c][i] = RequestWithoutQuery(c)
        ELSE /\ QueryPairs(sent[c][i].url)
                  = QueryPairs(RequestWithoutQuery(c).url)
                       \o SerializedPairs(args[c].query.value)
             /\ sent[c][i].url.query.some <=> QueryPairs(sent[c][i].url) # <<>>
             /\ [sent[c][i] EXCEPT !.url.query = None]
                  = [RequestWithoutQuery(c) EXCEPT !.url.query = None]

C6_Witness ==
    \E c \in Calls :
        /\ args[c].url = "/v1/items?x=1"
        /\ args[c].query = Some(<< <<"b", QStr("2")>>, <<"skip", QNone>>,
                                   <<"a", QStr("1")>> >>)
        /\ Len(sent[c]) = 1
        /\ sent[c][1].url = Url("https://api.example.com/v1/items",
                                Some(<< <<"x", "1">>, <<"b", "2">>, <<"a", "1">> >>))

\* C7: the target get builds is the base URL of Options followed by the
\* path, character for character, whatever the two strings are; the URL
\* Builder has no failure: it is enabled for every input and leaves the
\* call at the next line.
C7_TargetIsConcatenation ==
    \A c \in Calls :
        /\ pc[c] = "get_request_url" => ENABLED GetRequestUrl(c)
        /\ pc[c] # "get_request_url" =>
              /\ request_url[c] = args[c].options.base_url \o args[c].url
              /\ Count(trace[c], "get_request_url") = 1
        /\ pc[c] = "client_get" => result[c] = Unset

\* a base ending in a slash and a path starting with one keep both slashes
C7_Witness ==
    \E c \in Calls :
        /\ args[c].options.base_url = "https://api.example.com/"
        /\ args[c].url = "/v1/items"
        /\ pc[c] = "client_get"
        /\ request_url[c] = "https://api.example.com//v1/items"

\* what get builds for the arguments of call c when it runs alone
BuilderAlone(c) ==
    set_headers(args[c].options,
                set_query_params(args[c].query,
                                 ClientGet(c, get_request_url(args[c].options, args[c].url))))

\* what get returns for the arguments of call c and the answer `net` of
\* the network to its own request when it runs alone
GetAlone(c, net) ==
    IF ~BuilderAlone(c).request.ok THEN Err(BuilderAlone(c).request.error)
    ELSE IF ~net.ok THEN Err(net.error)
    ELSE check_errors(net.value)

\* C8: under every interleaving of concurrent calls, each call uses the
\* client and the request it built itself from its own arguments, sends
\* that request only, and returns what it would return alone for its own
\* arguments and its own response.
C8_CallsIndependent ==
    \A c \in Calls :
        /\ pc[c] \in {"send", "await_send", "check_errors", "await_json", "done"} =>
              builder[c] = BuilderAlone(c)
        /\ pc[c] \notin {"get_request_url", "client_get"} => builder[c].client = c
        /\ \A i \in DOMAIN sent[c] : sent[c][i] = BuilderAlone(c).request.value
        /\ Done(c) => result[c] = GetAlone(c, sendResult[c])

\* one call has returned its 200 while another, for another path, is still
\* suspended in the read of its error body
C8_Witness ==
    \E c, d \in Calls :
        /\ c # d
        /\ args[c].url # args[d].url
        /\ Done(c) /\ result[c].ok
        /\ pc[d] = "await_json"
        /\ sent[c] # sent[d]

\* C9: whenever get fails with ApiErrors, the errors sequence holds at
\* least one ApiError (stated for the responses whose body is a well-formed
\* payload, where it already fails).
C9_ApiErrorsNonEmptyOriginal ==
    \A c \in Calls :
        (Done(c) /\ ~result[c].ok /\ result[c].error.kind = "ApiErrors"
           /\ TheResponse(c).body \in WellFormedBodies) =>
            Len(result[c].error.errors) >= 1

\* C9, amended: for a status other than 200 and a well-formed payload, the
\* ApiErrors of the failure has as many records as the "errors" array of
\* the body: at least one when the array has one, none when it is empty.
C9_ApiErrorsLengthOfBody ==
    \A c \in Calls :
        (Done(c) /\ HasResponse(c) /\ TheResponse(c).status # 200) =>
            \A es \in ApiErrorSeqs, st \in Styles :
                TheResponse(c).body = ErrorBody(es, st) =>
                    /\ ~result[c].ok
                    /\ result[c].error.kind = "ApiErrors"
                    /\ Len(result[c].error.errors) = Len(es)
                    /\ es # <<>> => Len(result[c].error.errors) >= 1

\* the body {"errors": []} gives an ApiErrors without any record
C9_Witness ==
    \E c \in Calls :
        /\ Done(c) /\ HasResponse(c)
        /\ TheResponse(c).status = 500
        /\ TheResponse(c).body = JObj(<< <<"errors", JArr(<<>>)>> >>)
        /\ result[c] = Err([kind |-> "ApiErrors", errors |-> <<>>])

\* the stages of section 2 among the steps a call has run
Stages(c) == SelectSeq(trace[c], LAMBDA x : x # "client_get")

\* C10: the stages of get run in the order URL Builder, Header Composer,
\* Query Composer, Dispatcher, Response Classifier, and the classifier
\* runs only on a response that send returned.
C10_StageOrderOriginal ==
    \A c \in Calls :
        /\ IsPrefix(Stages(c), <<"get_request_url", "set_headers", "set_query_params",
                                 "send", "check_errors">>)
        /\ Count(trace[c], "check_errors") > 0 => HasResponse(c)

\* C10, amended: the stages of get run in the order URL Builder, Query
\* Composer, Header Composer, Dispatcher, Response Classifier (the query
\* parameters are attached before the headers), and the classifier runs
\* only on a response that send returned.
C10_StageOrder ==
    \A c \in Calls :
        /\ IsPrefix(Stages(c), <<"get_request_url", "set_query_params", "set_headers",
                                 "send", "check_errors">>)
        /\ Count(trace[c], "check_errors") > 0 => HasResponse(c)

C10_Witness ==
    \E c \in Calls :
        /\ Done(c)
        /\ trace[c] = <<"get_request_url", "client_get", "set_query_params",
                        "set_headers", "send", "check_errors">>
        /\ args[c].query.some

====
